---- MODULE Spec2Model ----
(***************************************************************************)
(* A model of the filesystem-backed paste store of src/paste.go.            *)
(*                                                                         *)
(* The persistent state is one storage unit per identifier: a file with    *)
(* its content bytes and the extended attributes "language", "hmac" and    *)
(* "encryption_version".  The in-memory state is a small set of paste      *)
(* handles, each with at most one open write stream.  Every store          *)
(* operation is one action; PasteWriter.Close is two (its Save call, then  *)
(* the close of the raw stream), because the code does nothing to make     *)
(* the pair atomic.  A read stream is opened, read to its end and closed   *)
(* in one action.  Paste.mtime is not modelled.                            *)
(***************************************************************************)
EXTENDS Integers, Sequences, FiniteSets, TLC

VARIABLES unit, paste, writer, last, script

vars == <<unit, paste, writer, last, script>>

----------------------------------------------------------------------------
(* Bounds of the model *)

\* longest content, in bytes, a stream writes
MaxLen == 2

----------------------------------------------------------------------------
(* Values *)

Handles == {"h1", "h2"}

Ids == {"aaaaa"}

\* nil []byte
NilKey == "nil"

\* Sample keys.  KZero is 32 bytes 0x00, K16A is the 32-byte big-endian
\* integer 0x016a (its AES key stream starts with a zero byte), KShort is a
\* 5-byte key.
Keys == {"KZero", "K16A", "KShort"}

KeyLen(key) ==
    CASE key = "KZero" -> 32
      [] key = "K16A" -> 32
      [] key = "KShort" -> 5
      [] OTHER -> 0

\* Go's zero value of Paste.Language, and the languages a caller sets
Languages == {"python"}

PayloadBytes == {0, 115}

None == <<>>

Some(x) == <<x>>

NoErr == "nil"

AttrNames == {"language", "hmac", "encryption_version"}

ENCRYPTION_VERSION == "1"

\* a file as os.Create makes it
BlankFile == [content |-> <<>>, xattr |-> [n \in AttrNames |-> None]]

----------------------------------------------------------------------------
(* Pure helpers *)

RECURSIVE Xor(_, _)
\* bitwise exclusive or of two bytes
Xor(a, b) ==
    IF a = 0 THEN b
    ELSE IF b = 0 THEN a
    ELSE ((a + b) % 2) + 2 * Xor(a \div 2, b \div 2)

\* aes.NewCipher accepts 16, 24 and 32 byte keys only
ValidAESKey(key) == key # NilKey /\ KeyLen(key) \in {16, 24, 32}

\* The first bytes of the OFB key stream AES produces from a zero IV
\* (position i is 1-based).
KeyStream(key, i) ==
    CASE key = "KZero" -> <<220, 149, 192, 120>>[i]
      [] key = "K16A" -> <<0, 249, 237, 191>>[i]

\* One byte through cipher.StreamWriter / cipher.StreamReader at stream
\* position i; a stream without a cipher layer passes the byte through.
StreamByte(key, i, b) == IF key = NilKey THEN b ELSE Xor(b, KeyStream(key, i))

\* the file offset is not advanced: every byte lands at the start
WriteAtNoSeek(content, off, b) == <<b>>

\* pwrite of one byte at offset off (0-based); a gap left by an earlier
\* truncation reads as zero bytes
WriteAt(content, off, b) ==
    [i \in 1..(IF off + 1 > Len(content) THEN off + 1 ELSE Len(content)) |->
        IF i = off + 1 THEN b
        ELSE IF i <= Len(content) THEN content[i]
        ELSE 0]

\* the tag of msg under key
constructMAC(msg, key) == <<"mac", msg, key>>

checkMAC(msg, mac, key) == mac = constructMAC(msg, key)

EncodeToString(bytes) == <<"b32">> \o bytes

DecodeOk(s) == Len(s) > 0 /\ s[1] = "b32"

DecodeString(s) == Tail(s)

----------------------------------------------------------------------------
(* The file system *)

Exists(id) == unit[id] # None

getMetadata(id, name, dflt) ==
    IF ~Exists(id) \/ unit[id][1].xattr[name] = None THEN dflt
    ELSE unit[id][1].xattr[name][1]

\* the units u after setxattr on the file of id
putMetadata(u, id, name, value) ==
    [u EXCEPT ![id][1].xattr[name] = Some(value)]

----------------------------------------------------------------------------
(* Results of the last operation *)

Result(op, h, id, key, p, err, upd, des, data) ==
    [op |-> op, h |-> h, id |-> id, key |-> key, p |-> p, err |-> err,
     update |-> upd, destroy |-> des, data |-> data]

NoResult == Result("init", "", "", NilKey, None, NoErr, 0, 0, <<>>)

\* the scripted run is not in use
Off == [pc |-> "off", id |-> "", key |-> NilKey, lang |-> "", payload |-> <<>>,
        i |-> 0, fetcher |-> ""]

----------------------------------------------------------------------------
(* The store's operations as functions of the persisted state *)

NewPaste(id, key) ==
    [ID |-> id, Language |-> "", Encrypted |-> key # NilKey, encryptionKey |-> key]

\* Get without the check of the key against the stored tag
GetRunNoKeyCheck(id, key) ==
    IF ~Exists(id) THEN [p |-> None, err |-> "NotFound", update |-> 0]
    ELSE
        LET hmac == getMetadata(id, "hmac", <<>>)
            plain == [ID |-> id, Language |-> getMetadata(id, "language", "text"),
                      Encrypted |-> hmac # <<>>, encryptionKey |-> NilKey]
        IN  IF hmac # <<>> /\ key = NilKey
            THEN [p |-> Some(plain), err |-> "Encrypted", update |-> 1]
            ELSE [p |-> Some([plain EXCEPT !.encryptionKey =
                                 IF hmac # <<>> THEN key ELSE NilKey]),
                  err |-> NoErr, update |-> 1]

\* FilesystemPasteStore.Get once os.Stat has found the file
GetExisting(id, key) ==
    LET hmac == getMetadata(id, "hmac", <<>>)
        language == getMetadata(id, "language", "text")
        plain == [ID |-> id, Language |-> language, Encrypted |-> FALSE,
                  encryptionKey |-> NilKey]
    IN  IF hmac # <<>>
        THEN IF key # NilKey
             THEN IF ~DecodeOk(hmac)
                  THEN [p |-> None, err |-> "Decode", update |-> 0]
                  ELSE IF ~checkMAC(id, DecodeString(hmac), key)
                  THEN [p |-> None, err |-> "InvalidKey", update |-> 0]
                  ELSE [p |-> Some([plain EXCEPT !.Encrypted = TRUE,
                                                 !.encryptionKey = key]),
                        err |-> NoErr, update |-> 1]
             ELSE [p |-> Some([plain EXCEPT !.Encrypted = TRUE]),
                   err |-> "Encrypted", update |-> 1]
        ELSE [p |-> Some(plain), err |-> NoErr, update |-> 1]

\* Get without the os.Stat of the file: a missing attribute reads as its
\* default, so a missing unit looks like an unencrypted paste
GetRunNoStat(id, key) == GetExisting(id, key)

\* FilesystemPasteStore.Get: the returned paste, the returned error and the
\* number of calls of PasteUpdateCallback
GetRun(id, key) ==
    IF ~Exists(id) THEN [p |-> None, err |-> "NotFound", update |-> 0]
    ELSE GetExisting(id, key)

\* Save that passes the key where the version marker belongs
SaveRunStoresKey(p, fail) ==
    IF ~Exists(p.ID) THEN [err |-> "ENOENT", u |-> unit, update |-> 0]
    ELSE [err |-> NoErr,
          u |-> putMetadata(putMetadata(unit, p.ID, "language", p.Language),
                            p.ID, "encryption_version", p.encryptionKey),
          update |-> 1]

\* Save whose setxattr calls create an attribute and refuse to replace one
SaveRunCreateOnly(p, fail) ==
    IF ~Exists(p.ID) THEN [err |-> "ENOENT", u |-> unit, update |-> 0]
    ELSE IF unit[p.ID][1].xattr["language"] # None
    THEN [err |-> "EEXIST", u |-> unit, update |-> 0]
    ELSE [err |-> NoErr, u |-> putMetadata(unit, p.ID, "language", p.Language),
          update |-> 1]

\* Save that leaves a tag alone once the unit carries one
SaveRunKeepsTag(p, fail) ==
    IF ~Exists(p.ID) THEN [err |-> "ENOENT", u |-> unit, update |-> 0]
    ELSE
        LET u1 == putMetadata(unit, p.ID, "language", p.Language)
            u2 == IF unit[p.ID][1].xattr["hmac"] # None THEN u1
                  ELSE putMetadata(u1, p.ID, "hmac",
                           EncodeToString(constructMAC(p.ID, p.encryptionKey)))
            u3 == putMetadata(u2, p.ID, "encryption_version", ENCRYPTION_VERSION)
        IN  [err |-> NoErr, u |-> IF p.Encrypted THEN u3 ELSE u1, update |-> 1]

\* Save that writes the tag first and the language after it
SaveRunTagFirst(p, fail) ==
    IF ~Exists(p.ID) THEN [err |-> "ENOENT", u |-> unit, update |-> 0]
    ELSE
        LET u1 == putMetadata(unit, p.ID, "hmac",
                      EncodeToString(constructMAC(p.ID, p.encryptionKey)))
            u2 == putMetadata(u1, p.ID, "language", p.Language)
            u3 == putMetadata(u2, p.ID, "encryption_version", ENCRYPTION_VERSION)
        IN  IF ~p.Encrypted
            THEN IF fail = "language" THEN [err |-> "EIO", u |-> unit, update |-> 0]
                 ELSE [err |-> NoErr,
                       u |-> putMetadata(unit, p.ID, "language", p.Language),
                       update |-> 1]
            ELSE IF fail = "hmac" THEN [err |-> "EIO", u |-> unit, update |-> 0]
            ELSE IF fail = "language" THEN [err |-> "EIO", u |-> u1, update |-> 0]
            ELSE IF fail = "encryption_version"
            THEN [err |-> "EIO", u |-> u2, update |-> 0]
            ELSE [err |-> NoErr, u |-> u3, update |-> 1]

\* FilesystemPasteStore.Save of paste p; fail names the attribute whose
\* setxattr the file system refuses ("none": it refuses none).  The result
\* is the returned error, the units afterwards and the number of calls of
\* PasteUpdateCallback.
SaveRun(p, fail) ==
    IF ~Exists(p.ID) THEN [err |-> "ENOENT", u |-> unit, update |-> 0]
    ELSE IF fail = "language" THEN [err |-> "EIO", u |-> unit, update |-> 0]
    ELSE
        LET u1 == putMetadata(unit, p.ID, "language", p.Language)
            u2 == putMetadata(u1, p.ID, "hmac",
                      EncodeToString(constructMAC(p.ID, p.encryptionKey)))
            u3 == putMetadata(u2, p.ID, "encryption_version", ENCRYPTION_VERSION)
        IN  IF ~p.Encrypted THEN [err |-> NoErr, u |-> u1, update |-> 1]
            ELSE IF fail = "hmac" THEN [err |-> "EIO", u |-> u1, update |-> 0]
            ELSE IF fail = "encryption_version"
            THEN [err |-> "EIO", u |-> u2, update |-> 0]
            ELSE [err |-> NoErr, u |-> u3, update |-> 1]

\* the setxattr calls an injected fault can hit
Faults(p) ==
    IF p.Encrypted THEN {"none", "language", "hmac", "encryption_version"}
    ELSE {"none", "language"}

\* the handle is inside PasteWriter.Close, between its two calls
InClose(h) == writer[h] # None /\ writer[h][1].saved # "no"

HasPaste(h) == paste[h] # None /\ ~InClose(h)

\* the key of the cipher layer of a stream of paste p (NilKey: no layer)
StreamKey(p) == IF p.Encrypted THEN p.encryptionKey ELSE NilKey

\* aes.NewCipher fails, its error is dropped and cipher.NewOFB dereferences
\* the nil block cipher
CipherPanics(p) == p.Encrypted /\ ~ValidAESKey(p.encryptionKey)

\* the read stream without its cipher layer
ReadAllRaw(key, content) == content

\* what a stream with the given key reads from content
ReadAll(key, content) ==
    [i \in 1..Len(content) |-> StreamByte(key, i, content[i])]

----------------------------------------------------------------------------
(* Actions *)

\* New that creates the file of the paste at once
NewCreatesFile(h, id, key) ==
    /\ writer[h] = None
    /\ paste' = [paste EXCEPT ![h] = Some(NewPaste(id, key))]
    /\ unit' = [unit EXCEPT ![id] = IF Exists(id) THEN unit[id] ELSE Some(BlankFile)]
    /\ last' = Result("New", h, id, key, Some(NewPaste(id, key)), NoErr, 0, 0, <<>>)
    /\ UNCHANGED writer

New(h, id, key) ==
    /\ writer[h] = None
    /\ paste' = [paste EXCEPT ![h] = Some(NewPaste(id, key))]
    /\ last' = Result("New", h, id, key, Some(NewPaste(id, key)), NoErr, 0, 0, <<>>)
    /\ UNCHANGED <<unit, writer>>

\* the caller keeps the paste of a Get that returned no error
\* Get that answers only for pastes the calling instance holds in memory
GetOwnOnly(h, id, key) ==
    /\ writer[h] = None
    /\ LET r == IF paste[h] # None /\ paste[h][1].ID = id
                THEN GetRun(id, key)
                ELSE [p |-> None, err |-> "NotFound", update |-> 0]
       IN  /\ paste' = IF r.err = NoErr THEN [paste EXCEPT ![h] = r.p] ELSE paste
           /\ last' = Result("Get", h, id, key, r.p, r.err, r.update, 0, <<>>)
    /\ UNCHANGED <<unit, writer>>

Get(h, id, key) ==
    /\ writer[h] = None
    /\ LET r == GetRun(id, key)
       IN  /\ paste' = IF r.err = NoErr THEN [paste EXCEPT ![h] = r.p] ELSE paste
           /\ last' = Result("Get", h, id, key, r.p, r.err, r.update, 0, <<>>)
    /\ UNCHANGED <<unit, writer>>

SetLanguage(h, l) ==
    /\ HasPaste(h)
    /\ paste[h][1].Language # l
    /\ paste' = [paste EXCEPT ![h][1].Language = l]
    /\ last' = Result("SetLanguage", h, paste[h][1].ID, NilKey, paste'[h], NoErr, 0, 0, <<>>)
    /\ UNCHANGED <<unit, writer>>

Save(h, fail) ==
    /\ HasPaste(h)
    /\ fail \in Faults(paste[h][1])
    /\ LET p == paste[h][1]
           r == SaveRun(p, fail)
       IN  /\ unit' = r.u
           /\ last' = Result("Save", h, p.ID, p.encryptionKey, paste[h], r.err,
                             r.update, 0, <<>>)
    /\ UNCHANGED <<paste, writer>>

\* Destroy that reports success and leaves the file in place
DestroyNoRemove(h) ==
    /\ HasPaste(h)
    /\ last' = Result("Destroy", h, paste[h][1].ID, NilKey, paste[h], NoErr, 0, 1, <<>>)
    /\ UNCHANGED <<unit, paste, writer>>

\* os.Remove unlinks the file; the streams open on it keep the unlinked file
Destroy(h) ==
    /\ HasPaste(h)
    /\ LET p == paste[h][1]
       IN  IF ~Exists(p.ID)
           THEN /\ last' = Result("Destroy", h, p.ID, NilKey, paste[h], "ENOENT", 0, 0, <<>>)
                /\ UNCHANGED <<unit, writer>>
           ELSE /\ unit' = [unit EXCEPT ![p.ID] = None]
                /\ writer' = [g \in Handles |->
                       IF writer[g] # None /\ paste[g][1].ID = p.ID
                       THEN Some([writer[g][1] EXCEPT !.linked = FALSE])
                       ELSE writer[g]]
                /\ last' = Result("Destroy", h, p.ID, NilKey, paste[h], NoErr, 0, 1, <<>>)
    /\ UNCHANGED paste

\* Paste.Writer -> FilesystemPasteStore.writeStream: os.Create makes the
\* file, or truncates the one that is there and keeps its attributes
Writer(h) ==
    /\ HasPaste(h)
    /\ writer[h] = None
    /\ LET p == paste[h][1]
       IN  /\ unit' = [unit EXCEPT ![p.ID] =
                          IF Exists(p.ID) THEN Some([unit[p.ID][1] EXCEPT !.content = <<>>])
                          ELSE Some(BlankFile)]
           /\ IF CipherPanics(p)
              THEN /\ writer' = writer
                   /\ last' = Result("Writer", h, p.ID, StreamKey(p), paste[h], "panic",
                                     0, 0, <<>>)
              ELSE /\ writer' = [writer EXCEPT ![h] =
                          Some([off |-> 0, key |-> StreamKey(p), linked |-> TRUE,
                                saved |-> "no"])]
                   /\ last' = Result("Writer", h, p.ID, StreamKey(p), paste[h], NoErr,
                                     0, 0, <<>>)
    /\ UNCHANGED paste

\* one byte written to the PasteWriter; a stream whose file was unlinked
\* writes to a file no name leads to
Write(h, b) ==
    /\ writer[h] # None
    /\ ~InClose(h)
    /\ LET w == writer[h][1]
           id == paste[h][1].ID
       IN  /\ w.off < MaxLen
           /\ unit' = IF w.linked
                       THEN [unit EXCEPT ![id][1].content =
                                WriteAt(@, w.off, StreamByte(w.key, w.off + 1, b))]
                       ELSE unit
           /\ writer' = [writer EXCEPT ![h][1].off = w.off + 1]
           /\ last' = Result("Write", h, id, w.key, None, NoErr, 0, 0, <<b>>)
    /\ UNCHANGED paste

\* PasteWriter.Close, first call: pr.paste.Save(), whose error is dropped
CloseSave(h, fail) ==
    /\ writer[h] # None
    /\ ~InClose(h)
    /\ fail \in Faults(paste[h][1])
    /\ LET p == paste[h][1]
           r == SaveRun(p, fail)
       IN  /\ unit' = r.u
           /\ writer' = [writer EXCEPT ![h][1].saved =
                             IF r.err = NoErr THEN "ok" ELSE "failed"]
           /\ last' = Result("Save", h, p.ID, p.encryptionKey, paste[h], r.err,
                             r.update, 0, <<>>)
    /\ UNCHANGED paste

\* PasteWriter.Close, second call: the raw stream is closed and its error
\* is what Close returns
CloseRaw(h, closeFails) ==
    /\ InClose(h)
    /\ writer' = [writer EXCEPT ![h] = None]
    /\ last' = Result("Close", h, paste[h][1].ID, writer[h][1].key, None,
                      IF closeFails THEN "EIO" ELSE NoErr, 0, 0, <<>>)
    /\ UNCHANGED <<unit, paste>>

\* Paste.Reader -> FilesystemPasteStore.readStream, the stream read to its
\* end, PasteReader.Close
Reader(h) ==
    /\ HasPaste(h)
    /\ LET p == paste[h][1]
       IN  last' = Result("Reader", h, p.ID, StreamKey(p), paste[h],
                      IF ~Exists(p.ID) THEN "ENOENT"
                      ELSE IF CipherPanics(p) THEN "panic" ELSE NoErr,
                      0, 0,
                      IF Exists(p.ID) /\ ~CipherPanics(p)
                      THEN ReadAll(StreamKey(p), unit[p.ID][1].content)
                      ELSE <<>>)
    /\ UNCHANGED <<unit, paste, writer>>

----------------------------------------------------------------------------
(* The specification: the operations of one session, in any order *)

\* NewFilesystemPasteStore on an empty directory
EmptyDisk == [id \in Ids |-> None]

Init ==
    /\ unit = EmptyDisk
    /\ paste = [h \in Handles |-> None]
    /\ writer = [h \in Handles |-> None]
    /\ last = NoResult
    /\ script = Off

Sessions == {"h1"}

AllFaults == {"none", "language", "hmac", "encryption_version"}

\* one operation of a session, with its inputs drawn from the given sets
Step(keys, faults, closeFaults) ==
    \/ \E h \in Sessions, id \in Ids, key \in keys :
          New(h, id, key) /\ UNCHANGED script
    \/ \E h \in Sessions, id \in Ids, key \in keys :
          Get(h, id, key) /\ UNCHANGED script
    \/ \E h \in Sessions, l \in Languages : SetLanguage(h, l) /\ UNCHANGED script
    \/ \E h \in Sessions, fail \in faults : Save(h, fail) /\ UNCHANGED script
    \/ \E h \in Sessions : Destroy(h) /\ UNCHANGED script
    \/ \E h \in Sessions : Writer(h) /\ UNCHANGED script
    \/ \E h \in Sessions, b \in PayloadBytes : Write(h, b) /\ UNCHANGED script
    \/ \E h \in Sessions, fail \in faults : CloseSave(h, fail) /\ UNCHANGED script
    \/ \E h \in Sessions, closeFails \in closeFaults :
          CloseRaw(h, closeFails) /\ UNCHANGED script
    \/ \E h \in Sessions : Reader(h) /\ UNCHANGED script

Next == Step(Keys \cup {NilKey}, AllFaults, BOOLEAN)

Spec == Init /\ [][Next]_vars

\* The same operations when the file system refuses nothing and every key
\* has a length AES accepts.
NextClean == Step({k \in Keys : ValidAESKey(k)} \cup {NilKey}, {"none"}, {FALSE})

SpecClean == Init /\ [][NextClean]_vars

----------------------------------------------------------------------------
(* The round trip, run as a script by one session on an empty store:       *)
(* New, the Language set or left unset, Writer, the payload written byte   *)
(* by byte, Close, then Get with the same key and Reader read to the end,  *)
(* by the same caller or by a second one that holds nothing (a caller of a *)
(* second store on the same path: a store has no state but its path and    *)
(* its callbacks).  No fault is injected.                                  *)

Payloads == UNION {[1..n -> PayloadBytes] : n \in 0..MaxLen}

S == "h1"

InitTrip ==
    /\ unit = EmptyDisk
    /\ paste = [h \in Handles |-> None]
    /\ writer = [h \in Handles |-> None]
    /\ last = NoResult
    /\ script \in [pc : {"new"}, id : Ids, key : Keys \cup {NilKey},
                    lang : {""} \cup Languages, payload : Payloads, i : {0},
                    fetcher : Handles]

\* the script goes on to stage pc when the step returned no error
Then(pc) == [script EXCEPT !.pc = IF last'.err = NoErr THEN pc ELSE "aborted"]

TripNew ==
    /\ script.pc = "new"
    /\ New(S, script.id, script.key)
    /\ script' = Then(IF script.lang = "" THEN "writer" ELSE "language")

\* the caller sets the Language field, unless the script leaves it unset
TripLanguage ==
    /\ script.pc = "language"
    /\ SetLanguage(S, script.lang)
    /\ script' = Then("writer")

TripWriter ==
    /\ script.pc = "writer"
    /\ Writer(S)
    /\ script' = Then("write")

TripWrite ==
    /\ script.pc = "write"
    /\ script.i < Len(script.payload)
    /\ Write(S, script.payload[script.i + 1])
    /\ script' = [Then("write") EXCEPT !.i = script.i + 1]

TripCloseSave ==
    /\ script.pc = "write"
    /\ script.i = Len(script.payload)
    /\ CloseSave(S, "none")
    /\ script' = Then("close")

TripCloseRaw ==
    /\ script.pc = "close"
    /\ CloseRaw(S, FALSE)
    /\ script' = Then("get")

TripGet ==
    /\ script.pc = "get"
    /\ Get(script.fetcher, script.id, script.key)
    /\ script' = Then("read")

TripRead ==
    /\ script.pc = "read"
    /\ Reader(script.fetcher)
    /\ script' = Then("done")

NextTrip ==
    \/ TripNew
    \/ TripLanguage
    \/ TripWriter
    \/ TripWrite
    \/ TripCloseSave
    \/ TripCloseRaw
    \/ TripGet
    \/ TripRead

SpecTrip == InitTrip /\ [][NextTrip]_vars

\* The round trip with a second caller, F, that calls Get with any key and
\* reads what it fetched at any moment of the first caller's script.
F == "h2"

ProbeGet(key) ==
    /\ script.pc \notin {"done", "aborted"}
    /\ Get(F, script.id, key)
    /\ UNCHANGED script

ProbeRead ==
    /\ script.pc \notin {"done", "aborted"}
    /\ Reader(F)
    /\ UNCHANGED script

NextProbe ==
    \/ NextTrip
    \/ \E key \in Keys \cup {NilKey} : ProbeGet(key)
    \/ ProbeRead

SpecProbe == InitTrip /\ [][NextProbe]_vars

\* the content of the unit of the script
Stored == unit[script.id][1].content

\* the script has closed its write stream
Closed == script.pc \in {"get", "read", "done"}

\* payload enciphered by the OFB key stream of key
CipherText(key, payload) ==
    [i \in 1..Len(payload) |-> Xor(payload[i], KeyStream(key, i))]

----------------------------------------------------------------------------
(* Two callers that each write a paste under the same identifier with a     *)
(* key of their own, on an empty store; their steps interleave freely.      *)
(* script.lastSaver is the caller whose Close persisted last, and           *)
(* script.overlap tells that a stream was opened while the other was open.  *)

Other(h) == CHOOSE g \in Handles : g # h

InitDuel ==
    /\ unit = EmptyDisk
    /\ paste = [h \in Handles |-> None]
    /\ writer = [h \in Handles |-> None]
    /\ last = NoResult
    /\ script \in
          {[pc |-> "duel", id |-> id, w |-> w, lastSaver |-> "", overlap |-> FALSE] :
              id \in Ids,
              w \in {x \in [Handles -> [pc : {"new"},
                                        key : {k \in Keys : ValidAESKey(k)},
                                        payload : Payloads, i : {0}]] :
                        x["h1"].key # x["h2"].key}}

DuelNew(h) ==
    /\ script.w[h].pc = "new"
    /\ New(h, script.id, script.w[h].key)
    /\ script' = [script EXCEPT !.w[h].pc = "writer"]

DuelWriter(h) ==
    /\ script.w[h].pc = "writer"
    /\ Writer(h)
    /\ script' = [script EXCEPT
                    !.w[h].pc = "write",
                    !.overlap = @ \/ script.w[Other(h)].pc \in {"write", "close"}]

DuelWrite(h) ==
    /\ script.w[h].pc = "write"
    /\ script.w[h].i < Len(script.w[h].payload)
    /\ Write(h, script.w[h].payload[script.w[h].i + 1])
    /\ script' = [script EXCEPT !.w[h].i = @ + 1]

DuelCloseSave(h) ==
    /\ script.w[h].pc = "write"
    /\ script.w[h].i = Len(script.w[h].payload)
    /\ CloseSave(h, "none")
    /\ script' = [script EXCEPT !.w[h].pc = "close", !.lastSaver = h]

DuelCloseRaw(h) ==
    /\ script.w[h].pc = "close"
    /\ CloseRaw(h, FALSE)
    /\ script' = [script EXCEPT !.w[h].pc = "closed"]

NextDuel ==
    \/ \E h \in Handles : DuelNew(h)
    \/ \E h \in Handles : DuelWriter(h)
    \/ \E h \in Handles : DuelWrite(h)
    \/ \E h \in Handles : DuelCloseSave(h)
    \/ \E h \in Handles : DuelCloseRaw(h)

SpecDuel == InitDuel /\ [][NextDuel]_vars

\* both callers have closed their streams
BothClosed == \A h \in Handles : script.w[h].pc = "closed"

\* the unit carries caller h's tag, and read with h's key it yields h's payload
Belongs(h) ==
    /\ unit[script.id][1].xattr["hmac"] =
          Some(EncodeToString(constructMAC(script.id, script.w[h].key)))
    /\ ReadAll(script.w[h].key, unit[script.id][1].content) = script.w[h].payload

----------------------------------------------------------------------------
(* generatePasteID: three random bytes, base32 in the store's alphabet,     *)
(* the first five symbols                                                   *)

\* the alphabet of base32Encoder, symbol of value v at position v + 1
base32Alphabet ==
    << "a", "b", "c", "d", "e", "f", "g", "h", "j", "k", "m", "n", "o", "p", "q", "r",
       "s", "t", "u", "v", "w", "x", "y", "z", "2", "3", "4", "5", "6", "7", "8", "9" >>

UuidLen == 3

IDLen == 5

RECURSIVE Pow(_, _)
Pow(b, e) == IF e = 0 THEN 1 ELSE b * Pow(b, e - 1)

\* the bytes read as one big-endian number
RECURSIVE BigEndian(_)
BigEndian(bytes) ==
    IF bytes = <<>> THEN 0
    ELSE BigEndian(SubSeq(bytes, 1, Len(bytes) - 1)) * 256 + bytes[Len(bytes)]

\* encoding/base32 Encoding.EncodeToString with padding: the bits in groups
\* of five, the last group filled with zero bits, the text filled with "="
\* to a multiple of eight symbols
Base32EncodeToString(bytes) ==
    LET nsym == (8 * Len(bytes) + 4) \div 5
        bits == BigEndian(bytes) * Pow(2, 5 * nsym - 8 * Len(bytes))
        total == 8 * ((nsym + 7) \div 8)
    IN  [j \in 1..total |->
            IF j <= nsym
            THEN base32Alphabet[((bits \div Pow(32, nsym - j)) % 32) + 1]
            ELSE "="]

PasteIDFromString(s) == s

\* what rand.Read(uuid) can return: all the bytes and no error, or fewer
\* bytes and the error that stopped it (io.ReadFull: n = len iff err = nil)
RandomBytes == {0, 1, 31, 132, 255}

ReadOutcomes ==
    {[n |-> UuidLen, err |-> NoErr, uuid |-> b] : b \in [1..UuidLen -> RandomBytes]}
    \cup {[n |-> k, err |-> e, uuid |-> [i \in 1..UuidLen |-> 0]] :
            k \in 0..(UuidLen - 1), e \in {"ErrUnexpectedEOF", "EIO"}}

\* generatePasteID that keeps the whole encoded text
generatePasteIDNoSlice(read) ==
    IF read.n # UuidLen \/ read.err # NoErr
    THEN [id |-> <<>>, err |-> read.err]
    ELSE [id |-> PasteIDFromString(Base32EncodeToString(read.uuid)), err |-> NoErr]

generatePasteID(read) ==
    IF read.n # UuidLen \/ read.err # NoErr
    THEN [id |-> <<>>, err |-> read.err]
    ELSE [id |-> PasteIDFromString(
                     SubSeq(Base32EncodeToString(read.uuid), 1, IDLen)),
          err |-> NoErr]

InitGen ==
    /\ unit = EmptyDisk
    /\ paste = [h \in Handles |-> None]
    /\ writer = [h \in Handles |-> None]
    /\ last = NoResult
    /\ script = [pc |-> "generate"]

Generate(read) ==
    /\ script' = [pc |-> "generated", n |-> read.n, uuid |-> read.uuid,
                  id |-> generatePasteID(read).id, err |-> generatePasteID(read).err]
    /\ UNCHANGED <<unit, paste, writer, last>>

NextGen == \E read \in ReadOutcomes : Generate(read)

SpecGen == InitGen /\ [][NextGen]_vars

----------------------------------------------------------------------------
(* Claims *)

\* C1: plain round trip.  On an identifier with no unit, New(id, nil),
\* Writer, write P, Close, Get(id, nil), Reader, read to the end: every step
\* returns no error, the unit's content is exactly P once the stream is
\* closed, and the bytes read are exactly P.
C1_PlainRoundTrip ==
    script.key = NilKey =>
        /\ script.pc # "aborted"
        /\ last.err = NoErr
        /\ Closed => Stored = script.payload
        /\ script.pc = "done" => last.data = script.payload

C1_Witness ==
    /\ script.pc = "done"
    /\ script.key = NilKey
    /\ Len(script.payload) >= 2
    /\ script.payload[1] # script.payload[2]
    /\ last.op = "Reader"

C3_FetchDecisionTable ==
    (last.op = "Get" /\ Exists(last.id)) =>
        LET tag == getMetadata(last.id, "hmac", <<>>)
            mine == EncodeToString(constructMAC(last.id, last.key))
        IN  IF tag # <<>>
            THEN /\ last.key = NilKey => last.err = "Encrypted"
                 /\ (last.key # NilKey /\ mine # tag) =>
                       last.err = "InvalidKey"
                 /\ (last.key # NilKey /\ mine = tag) =>
                       /\ last.err = NoErr
                       /\ last.p # None
                       /\ last.p[1].Encrypted
                       /\ last.p[1].encryptionKey = last.key
            ELSE /\ last.err = NoErr
                 /\ last.p # None
                 /\ ~last.p[1].Encrypted
                 /\ last.p[1].encryptionKey = NilKey

C3_Witness ==
    /\ last.op = "Get"
    /\ last.err = "InvalidKey"
    /\ getMetadata(last.id, "hmac", <<>>) # <<>>

\* C4 as stated: Get returns a paste or an error, never both.
C4_PasteOrError ==
    last.op = "Get" =>
        /\ last.err # NoErr => last.p = None
        /\ last.p # None => last.err = NoErr

\* C5 as stated: the metadata of a write is never persisted while the raw
\* content stream of that write is still open.
C5_RawClosedBeforePersist ==
    \A h \in Handles : writer[h] # None => writer[h][1].saved # "ok"

\* C6 as stated: once a paste has been persisted, its unit carries a tag
\* and a version marker if and only if the paste is encrypted.
C6_TagIffEncrypted ==
    (last.op = "Save" /\ last.err = NoErr) =>
        LET x == unit[last.id][1].xattr
        IN  /\ x["hmac"] # None <=> last.p[1].Encrypted
            /\ x["encryption_version"] # None <=> last.p[1].Encrypted

\* C7: a successful Destroy leaves no unit; while there is no unit every
\* Get fails NotFound; a unit comes into being only by a write stream being
\* opened, and it then has no content and no metadata.
C7_DestroyRemovesUnit ==
    [][\A id \in Ids :
          /\ (last'.op = "Destroy" /\ last'.err = NoErr /\ last'.id = id) =>
                unit'[id] = None
          /\ (unit[id] = None /\ last'.op = "Get" /\ last'.id = id) =>
                last'.err = "NotFound"
          /\ (unit[id] = None /\ unit'[id] # None) =>
                last'.op = "Writer" /\ unit'[id] = Some(BlankFile)]_vars

C7_Witness ==
    /\ last.op = "Destroy"
    /\ last.err = NoErr
    /\ last.p[1].Encrypted
    /\ unit[last.id] = None

\* C8: Get on an identifier with no unit fails NotFound with or without a
\* key, returns no paste, calls no callback and changes nothing; Get on an
\* identifier with a unit never fails NotFound.
C8_NotFound ==
    [][last'.op = "Get" =>
          IF unit[last'.id] = None
          THEN /\ last'.err = "NotFound"
               /\ last'.p = None
               /\ last'.update = 0 /\ last'.destroy = 0
               /\ unit' = unit /\ paste' = paste /\ writer' = writer
          ELSE last'.err # "NotFound"]_vars

C8_Witness ==
    /\ last.op = "Get"
    /\ last.err = "NotFound"
    /\ last.key # NilKey
    /\ paste[last.h] # None

\* C9 as stated: the update callback is called once by each Get and each
\* Save that succeeds and by none that fails; the destroy callback is called
\* once by each Destroy that succeeds and by none that fails.
C9_CallbacksOnSuccess ==
    /\ last.op \in {"Get", "Save"} =>
          last.update = (IF last.err = NoErr THEN 1 ELSE 0)
    /\ last.op = "Destroy" =>
          last.destroy = (IF last.err = NoErr THEN 1 ELSE 0)

\* C10 as stated: Close returns an error whenever the Save it called failed.
C10_CloseReportsSave ==
    [][(last'.op = "Close" /\ writer[last'.h] # None
          /\ writer[last'.h][1].saved = "failed" /\ writer'[last'.h] = None) =>
          last'.err # NoErr]_vars

\* C11: the key is not persisted.  The language attribute holds a language
\* of the caller, the version attribute the fixed marker, the hmac attribute
\* the encoded MAC of the identifier under a key, and every content byte is
\* a payload byte, plain or xored with the key stream (or a zero of a gap);
\* no attribute holds a key.
C11_KeyNotPersisted ==
    \A id \in Ids :
        Exists(id) =>
            LET f == unit[id][1]
            IN  /\ f.xattr["language"] \in
                      {None} \cup {Some(l) : l \in Languages \cup {"", "text"}}
                /\ f.xattr["encryption_version"] \in {None, Some(ENCRYPTION_VERSION)}
                /\ f.xattr["hmac"] \in
                      {None} \cup {Some(EncodeToString(constructMAC(id, k))) : k \in Keys}
                /\ \A k \in Keys :
                      /\ f.xattr["language"] # Some(k)
                      /\ f.xattr["encryption_version"] # Some(k)
                /\ \A i \in 1..Len(f.content) :
                      f.content[i] \in
                          {0} \cup PayloadBytes \cup
                          {Xor(b, KeyStream(k, i)) :
                              b \in PayloadBytes, k \in {x \in Keys : ValidAESKey(x)}}

C11_Witness ==
    /\ last.op = "Save"
    /\ last.err = NoErr
    /\ last.p[1].Encrypted
    /\ unit[last.id][1].xattr["hmac"] =
          Some(EncodeToString(constructMAC(last.id, last.p[1].encryptionKey)))
    /\ unit[last.id][1].xattr["encryption_version"] = Some(ENCRYPTION_VERSION)
    /\ Len(unit[last.id][1].content) = MaxLen
    /\ writer[last.h] # None
    /\ writer[last.h][1].key = last.p[1].encryptionKey

\* C12: a Save that follows a successful Save of the same paste fields
\* leaves the attributes and the content of the unit as they were, and fails
\* only if the file system refuses a write.
C12_IdempotentPersist ==
    [][(last.op = "Save" /\ last.err = NoErr
          /\ last'.op = "Save" /\ last'.p = last.p) =>
          /\ unit' = unit
          /\ last'.err \in {NoErr, "EIO"}]_vars

C12_Witness ==
    /\ last.op = "Save"
    /\ last.err = "EIO"
    /\ last.p[1].Encrypted
    /\ unit[last.id][1].xattr["language"] = Some(last.p[1].Language)
    /\ unit[last.id][1].xattr["hmac"] =
          Some(EncodeToString(constructMAC(last.id, last.p[1].encryptionKey)))
    /\ unit[last.id][1].xattr["encryption_version"] = Some(ENCRYPTION_VERSION)

\* C14: New is construction in memory.  It changes no unit and no stream,
\* calls no callback, returns no error and a paste with the given ID and
\* Encrypted = (key # nil); a Get that follows a New on an identifier with
\* no unit fails NotFound.
C14_NewIsPure ==
    [][/\ last'.op = "New" =>
            /\ unit' = unit /\ writer' = writer
            /\ last'.err = NoErr
            /\ last'.update = 0 /\ last'.destroy = 0
            /\ last'.p # None
            /\ last'.p[1].ID = last'.id
            /\ last'.p[1].Encrypted = (last'.key # NilKey)
            /\ paste'[last'.h] = last'.p
       /\ (last.op = "New" /\ unit[last.id] = None
             /\ last'.op = "Get" /\ last'.id = last.id) =>
            last'.err = "NotFound"]_vars

C14_Witness ==
    /\ last.op = "New"
    /\ last.key # NilKey
    /\ last.p[1].Encrypted
    /\ unit[last.id] = None

\* C18: a Save of an encrypted paste whose hmac write is refused after the
\* language write went through returns the error, leaves the new language
\* persisted and the hmac and the version as they were, and calls no
\* callback; whatever write is refused, the writes before it stay and the
\* writes after it are not made.
C18_PartialPersist ==
    [][\A h \in Sessions :
          (HasPaste(h) /\ paste[h][1].Encrypted /\ Exists(paste[h][1].ID)) =>
              LET p == paste[h][1]
                  u1 == putMetadata(unit, p.ID, "language", p.Language)
                  u2 == putMetadata(u1, p.ID, "hmac",
                            EncodeToString(constructMAC(p.ID, p.encryptionKey)))
              IN  /\ (Save(h, "language") \/ CloseSave(h, "language")) =>
                        unit' = unit /\ last'.err # NoErr /\ last'.update = 0
                  /\ (Save(h, "hmac") \/ CloseSave(h, "hmac")) =>
                        unit' = u1 /\ last'.err # NoErr /\ last'.update = 0
                  /\ (Save(h, "encryption_version")
                        \/ CloseSave(h, "encryption_version")) =>
                        unit' = u2 /\ last'.err # NoErr /\ last'.update = 0]_vars

C18_Witness ==
    /\ last.op = "Save"
    /\ last.err = "EIO"
    /\ last.p[1].Encrypted
    /\ last.p[1].Language = "python"
    /\ unit[last.id][1].xattr["language"] = Some("python")
    /\ unit[last.id][1].xattr["hmac"] = None
    /\ unit[last.id][1].xattr["encryption_version"] = None

\* C13: Get returns the language that was persisted last, and "text" for a
\* paste whose Language was never set: after New, Writer, write, Close with
\* Language set to l or left unset, Get yields l, or "text" when unset.
C13_LanguageOrDefault ==
    (last.op = "Get" /\ last.err = NoErr /\ script.pc = "read") =>
        last.p[1].Language = IF script.lang = "" THEN "text" ELSE script.lang

\* C15: a store holds no paste state in memory.  A paste written and closed
\* through one store is fetched by Get(id, K) through a second store on the
\* same path, whose caller holds nothing: the Get returns no error and the
\* paste with the same ID, the persisted language, Encrypted = (K # nil)
\* and the key, and reading it yields the payload.
C15_FreshInstanceFetches ==
    (script.fetcher # S /\ (script.key = NilKey \/ ValidAESKey(script.key))) =>
        /\ script.pc # "aborted"
        /\ script.pc \in {"read", "done"} =>
              /\ last.err = NoErr
              /\ paste[script.fetcher] =
                    Some([ID |-> script.id,
                          Language |-> unit[script.id][1].xattr["language"][1],
                          Encrypted |-> script.key # NilKey,
                          encryptionKey |-> script.key])
              /\ unit[script.id][1].xattr["language"] = Some(script.lang)
        /\ script.pc = "done" => last.data = script.payload

C15_Witness ==
    /\ script.pc = "done"
    /\ script.fetcher = "h2"
    /\ script.key = "KZero"
    /\ script.lang = "python"
    /\ Len(script.payload) = MaxLen
    /\ last.op = "Reader"
    /\ last.h = "h2"
    /\ last.data = script.payload
    /\ paste["h2"][1].Language = "python"

\* C17: on an identifier with no unit the paste is fetchable only once its
\* write stream has been closed: a Get made after Writer has returned and
\* before Close is called fails NotFound.
C17_FetchableAtClose ==
    (last.op = "Get" /\ last.h = F /\ script.pc = "write") =>
        last.err = "NotFound"

\* C19: while a caller writes an encrypted paste, no other caller gets,
\* without a key, an unencrypted handle whose read returns the ciphertext
\* written so far.
C19_NoKeylessCiphertext ==
    script.key # NilKey =>
        ~ /\ last.op = "Reader"
          /\ last.h = F
          /\ last.err = NoErr
          /\ ~last.p[1].Encrypted
          /\ last.data # <<>>
          /\ last.data = CipherText(script.key,
                              SubSeq(script.payload, 1, Len(last.data)))

\* C16: whenever generatePasteID returns no error the identifier is exactly
\* five symbols of the 32-symbol alphabet, and whenever the random source
\* did not deliver all three bytes it returns an error and the empty
\* identifier; it never returns the empty identifier with no error.
C16_GeneratedID ==
    script.pc = "generated" =>
        /\ script.err = NoErr =>
              /\ Len(script.id) = 5
              /\ \A i \in 1..Len(script.id) :
                    \E v \in 1..32 : script.id[i] = base32Alphabet[v]
        /\ script.n # 3 => script.err # NoErr /\ script.id = <<>>
        /\ ~(script.id = <<>> /\ script.err = NoErr)

C16_Witness ==
    /\ script.pc = "generated"
    /\ script.err = NoErr
    /\ script.uuid = <<255, 132, 1>>
    /\ script.id = <<"9", "8", "c", "a", "c">>

====
